---------------------------- MODULE Spec2Model ----------------------------
(***************************************************************************)
(* LearnLessonPreprocessor (notebooks/nb_utils/lesson_preprocessor.py).    *)
(*                                                                         *)
(* Text is a sequence of tokens.  A token is a non-empty run of characters *)
(* that Python's scanning treats as a unit: "#$" is the opening delimiter  *)
(* of the pattern #\$([^$]+)\$, "$" a lone dollar, "(" and ")" the         *)
(* parentheses expand_macro looks at, " " a run of whitespace, and every   *)
(* other token a run of characters holding none of # $ ( ) or whitespace   *)
(* (the sentinel "#%%RM_BELOW%%" holds a # that no $ follows).  Every      *)
(* character string has exactly one such tokenisation in which each        *)
(* occurrence of "#$" is the token "#$".                                   *)
(***************************************************************************)
EXTENDS Integers, Sequences, FiniteSets, TLC

VARIABLES
    track,          \* resources['track_meta']: the course and its lessons
    lesson,         \* resources['lesson']: index of the current lesson in the track
    cfg,            \* resources['track_cfg']: daily, development
    nb_type,        \* resources['nb_meta'].type
    IGNORE_UNKNOWN_MACROS, \* module flag (line 15)
    input_cells,    \* the cells of nb as handed to preprocess
    nb_cells,       \* nb.cells
    new_cells,      \* the local list new_cells of preprocess
    kept,           \* for each element of new_cells, the index of the input cell it came from
    idx,            \* position of the for loop of preprocess in nb.cells
    pc,             \* where the running operation stands
    dropped,        \* indices of the input cells the substitution resolver dropped
    error,          \* the exception that ended the operation, "" when none
    message,        \* the message of that exception
    git_calls,      \* number of calls of get_git_branch in this pass
    git_result,     \* what the last call of get_git_branch did
    call            \* the last macro call: name, arguments and outcome

vars == <<track, lesson, cfg, nb_type, IGNORE_UNKNOWN_MACROS, input_cells, nb_cells,
          new_cells, kept, dropped, idx, pc, error, message, git_calls, git_result, call>>

---------------------------------------------------------------------------
(* Bounds *)

MaxLessons == 2
MaxParts == 3
MaxCells == 3

---------------------------------------------------------------------------
(* Tokens *)

OPEN == "#$"
DOLLAR == "$"
LPAREN == "("
RPAREN == ")"
WS == " "
HASH == "#"
SENTINEL == "#%%RM_BELOW%%"

\* str.strip(): leading and trailing whitespace removed
RECURSIVE LStrip(_)
LStrip(s) == IF s # <<>> /\ Head(s) = WS THEN LStrip(Tail(s)) ELSE s

RECURSIVE RStrip(_)
RStrip(s) == IF s # <<>> /\ s[Len(s)] = WS THEN RStrip(SubSeq(s, 1, Len(s) - 1)) ELSE s

Strip(s) == RStrip(LStrip(s))

\* int(): the value of a numeral, "ValueError" for any other text
Numerals == {"-2", "-1", "0", "1", "2", "3", "4"}
IntValue(tok) ==
    CASE tok = "-2" -> -2 [] tok = "-1" -> -1 [] tok = "0" -> 0 [] tok = "1" -> 1
      [] tok = "2" -> 2 [] tok = "3" -> 3 [] tok = "4" -> 4

IsInt(arg) == Len(arg) = 1 /\ arg[1] \in Numerals

---------------------------------------------------------------------------
(* Track and lessons (resources['track_meta']) *)

Lesson(k, n, T) ==
    [topic |-> "topic" \o ToString(k),
     has_tutorial |-> k \in T,
     tutorial_url |-> "tutorial_url" \o ToString(k),
     forking_url |-> "forking_url" \o ToString(k),
     last |-> k = n,
     next |-> IF k < n THEN k + 1 ELSE 0]

MkTrack(n, T) ==
    [course_name |-> "course_name", course_url |-> "course_url",
     lessons |-> [k \in 1..n |-> Lesson(k, n, T)]]

Tracks == {MkTrack(n, T) : n \in 1..MaxLessons, T \in SUBSET (1..MaxLessons)}

\* Python's list indexing seq[i] with a 0-based, possibly negative i:
\* 0 when i is out of range (IndexError), else the 1-based position
PyIndex(n, i) ==
    IF 0 <= i /\ i < n THEN i + 1
    ELSE IF -n <= i /\ i < 0 THEN n + i + 1
    ELSE 0

---------------------------------------------------------------------------
(* Outcomes of a macro method: text, None, or an exception.  meta is the   *)
(* metadata of the cell after the call (the set of flags set to True).     *)

RetText(t, meta) == [kind |-> "text", text |-> t, exc |-> "", msg |-> <<>>, meta |-> meta]
RetNone(meta) == [kind |-> "none", text |-> <<>>, exc |-> "", msg |-> <<>>, meta |-> meta]
Raise(e, m, meta) == [kind |-> "raise", text |-> <<>>, exc |-> e, msg |-> m, meta |-> meta]

CurLesson(self) == self.track.lessons[self.lesson]

\* lesson_idx = int(lesson_num) - 1; lesson = self.track.lessons[lesson_idx]
\* the position of the lesson, or the exception
LessonAt(self, lesson_num) ==
    IF ~IsInt(lesson_num) THEN [exc |-> "ValueError", k |-> 0]
    ELSE LET lesson_idx == IntValue(lesson_num[1]) - 1
             k == PyIndex(Len(self.track.lessons), lesson_idx)
         IN  IF k = 0 THEN [exc |-> "IndexError", k |-> 0] ELSE [exc |-> "", k |-> k]

EXERCISE_FORKING_URL(self, args, meta) ==
    IF args = <<>> THEN RetText(<<CurLesson(self).forking_url>>, meta)
    ELSE LET r == LessonAt(self, args[1])
         IN  IF r.exc # "" THEN Raise(r.exc, <<>>, meta)
             ELSE RetText(<<self.track.lessons[r.k].forking_url>>, meta)

HIDE_INPUT(self, args, meta) ==
    IF args # <<>> THEN Raise("TypeError", <<>>, meta)
    ELSE RetNone(meta \cup {"_kg_hide-input"})

HIDE_OUTPUT(self, args, meta) ==
    IF args # <<>> THEN Raise("TypeError", <<>>, meta)
    ELSE RetNone(meta \cup {"_kg_hide-output"})

\* the macro HIDE (the word is reserved in TLA+)
HIDE_macro(self, args, meta) ==
    IF args # <<>> THEN Raise("TypeError", <<>>, meta)
    ELSE RetNone(HIDE_OUTPUT(self, <<>>, HIDE_INPUT(self, <<>>, meta).meta).meta)

YOURTURN(self, args, meta) ==
    IF args # <<>> THEN Raise("TypeError", <<>>, meta)
    ELSE RetText(<<"# Your Turn\n\nTry the [hands-on exercise](", CurLesson(self).forking_url,
                   ") with ", CurLesson(self).topic>>, meta)

TUT_BETA_NOTE(self, args, meta) ==
    IF args = <<>> THEN Raise("TypeError", <<>>, meta)
    ELSE RetText(<<"### P.S...\n\nThis course is still in beta ... [fill out a super-short survey about this lesson](",
                   "https://form.jotform.com/">> \o args[1] \o <<") ... [Learn Forum](https://www.kaggle.com/learn-forum).\n">>,
                 meta)

EXERCISE_SETUP(self, args, meta) ==
    IF args # <<>> THEN Raise("TypeError", <<>>, meta) ELSE RetNone(meta)

TUTORIAL_URL(self, args, meta) ==
    LET r == IF args = <<>> THEN [exc |-> "", k |-> self.lesson] ELSE LessonAt(self, args[1])
    IN  IF r.exc # "" THEN Raise(r.exc, <<>>, meta)
        ELSE IF ~self.track.lessons[r.k].has_tutorial THEN Raise("AttributeError", <<>>, meta)
        ELSE RetText(<<self.track.lessons[r.k].tutorial_url>>, meta)

EXERCISE_URL(self, args, meta) ==
    IF args = <<>> THEN Raise("TypeError", <<>>, meta)
    ELSE LET r == LessonAt(self, args[1])
         IN  IF r.exc # "" THEN Raise(r.exc, <<>>, meta)
             ELSE RetText(<<self.track.lessons[r.k].forking_url>>, meta)

EXERCISE_PREAMBLE(self, args, meta) ==
    IF args # <<>> THEN Raise("TypeError", <<>>, meta)
    ELSE IF ~CurLesson(self).has_tutorial THEN Raise("AttributeError", <<>>, meta)
    ELSE RetText(<<"These exercises accompany the tutorial on [", CurLesson(self).topic, "](",
                   CurLesson(self).tutorial_url, ").">>, meta)

\* cfg.get(key): truthiness of the value, absent counting as None
Truthy(v) == v = "true"

DailyMessage == "\n**You'll get another email tomorrow so you can keep learning. See you then.**"

\* the tutorial's URL whether or not the lesson has a tutorial
NextUrlAlwaysTutorial(next_lesson) == next_lesson.tutorial_url

\* the URL KEEP_GOING links to: the tutorial's when the lesson has one
NextUrl(next_lesson) ==
    IF next_lesson.has_tutorial THEN next_lesson.tutorial_url ELSE next_lesson.forking_url

KEEP_GOING(self, args, meta) ==
    IF args # <<>> THEN Raise("TypeError", <<>>, meta)
    ELSE IF Truthy(self.cfg.daily) THEN RetText(<<DailyMessage>>, meta)
    ELSE IF CurLesson(self).next = 0 THEN Raise("AttributeError", <<>>, meta)
    ELSE LET next_lesson == self.track.lessons[CurLesson(self).next]
         IN  RetText(<<"# Keep Going\n\nYou are ready for **[", next_lesson.topic, "](",
                       NextUrl(next_lesson), ").**\n">>, meta)

END_OF_EMB_EXERCISE(self, args, meta) ==
    IF args = <<>> THEN Raise("TypeError", <<>>, meta)
    ELSE LET txt == <<"\n---\nThat's the end of this exercise. ... [fill out a super-short survey about this exercise](",
                      "https://form.jotform.com/">> \o args[1] \o <<"), I'd greatly appreciate it.\n">>
         IN  IF CurLesson(self).last THEN RetText(txt, meta)
             ELSE LET next_lesson == self.track.lessons[CurLesson(self).next]
                  IN  IF ~next_lesson.has_tutorial THEN Raise("AttributeError", <<>>, meta)
                      ELSE RetText(txt \o <<"\n# Keep going\n\nWhen you're ready to continue, [click here](",
                                            next_lesson.tutorial_url,
                                            ") to continue on to the next tutorial on ",
                                            next_lesson.topic, ".\n">>, meta)

MacroNames ==
    {"EXERCISE_FORKING_URL", "HIDE_INPUT", "HIDE_OUTPUT", "HIDE", "YOURTURN", "TUT_BETA_NOTE",
     "EXERCISE_SETUP", "TUTORIAL_URL", "EXERCISE_URL", "EXERCISE_PREAMBLE", "KEEP_GOING",
     "END_OF_EMB_EXERCISE"}

\* attributes of the preprocessor that getattr finds and that are no macro:
\* calling one with (*args, cell=cell) ends in a TypeError
OtherAttributes == {"make_cell", "track"}

\* macro_method(*args, cell=cell)
CallMethod(self, name, args, meta) ==
    CASE name = "EXERCISE_FORKING_URL" -> EXERCISE_FORKING_URL(self, args, meta)
      [] name = "HIDE_INPUT" -> HIDE_INPUT(self, args, meta)
      [] name = "HIDE_OUTPUT" -> HIDE_OUTPUT(self, args, meta)
      [] name = "HIDE" -> HIDE_macro(self, args, meta)
      [] name = "YOURTURN" -> YOURTURN(self, args, meta)
      [] name = "TUT_BETA_NOTE" -> TUT_BETA_NOTE(self, args, meta)
      [] name = "EXERCISE_SETUP" -> EXERCISE_SETUP(self, args, meta)
      [] name = "TUTORIAL_URL" -> TUTORIAL_URL(self, args, meta)
      [] name = "EXERCISE_URL" -> EXERCISE_URL(self, args, meta)
      [] name = "EXERCISE_PREAMBLE" -> EXERCISE_PREAMBLE(self, args, meta)
      [] name = "KEEP_GOING" -> KEEP_GOING(self, args, meta)
      [] name = "END_OF_EMB_EXERCISE" -> END_OF_EMB_EXERCISE(self, args, meta)
      [] OTHER -> Raise("TypeError", <<>>, meta)

\* getattr(self, macro, None): the attribute's name, "" for None
GetAttr(macro) ==
    IF Len(macro) = 1 /\ macro[1] \in MacroNames \cup OtherAttributes THEN macro[1] ELSE ""

\* str.split(sep): the pieces of s between the occurrences of the token sep
RECURSIVE Split(_, _)
Split(s, sep) ==
    IF \A i \in 1..Len(s) : s[i] # sep THEN <<s>>
    ELSE LET i == CHOOSE j \in 1..Len(s) : s[j] = sep /\ \A h \in 1..(j - 1) : s[h] # sep
         IN  <<SubSeq(s, 1, i - 1)>> \o Split(SubSeq(s, i + 1, Len(s)), sep)

UnrecognizedMessage == "Don't know how to handle the macro with name: "

expand_macro(self, macro, meta) ==
    IF macro[Len(macro)] = RPAREN
    THEN LET parts == Split(SubSeq(macro, 1, Len(macro) - 1), LPAREN)
         IN  IF Len(parts) # 2 THEN Raise("ValueError", <<>>, meta)
             ELSE LET args == IF Strip(parts[2]) # <<>> THEN <<Strip(parts[2])>> ELSE <<>>
                  IN  IF GetAttr(parts[1]) = ""
                      THEN Raise("UnrecognizedMacroException", <<UnrecognizedMessage>> \o parts[1], meta)
                      ELSE CallMethod(self, GetAttr(parts[1]), args, meta)
    ELSE IF GetAttr(macro) = ""
         THEN Raise("UnrecognizedMacroException", <<UnrecognizedMessage>> \o macro, meta)
         ELSE CallMethod(self, GetAttr(macro), <<>>, meta)

---------------------------------------------------------------------------
(* process_cell *)

NoMatch == [found |-> FALSE, a |-> 0, b |-> 0, group |-> <<>>]

\* re.finditer(r'#\$([^$]+)\$', src): the first match starting at pos or later.
\* a is the position of the opening "#$", b the position of the token that closes
\* the match.  [^$]+ runs to the next dollar, which is either a "$" token or the
\* dollar of a following "#$" token (whose # then belongs to the group).
RECURSIVE NextMatch(_, _)
NextMatch(src, pos) ==
    IF pos > Len(src) THEN NoMatch
    ELSE IF src[pos] # OPEN THEN NextMatch(src, pos + 1)
    ELSE LET closers == {q \in (pos + 1)..Len(src) : src[q] \in {DOLLAR, OPEN}}
         IN  IF closers = {} THEN NoMatch
             ELSE LET q == CHOOSE c \in closers : \A d \in closers : c <= d
                  IN  IF src[q] = DOLLAR /\ q = pos + 1 THEN NextMatch(src, pos + 1)
                      ELSE [found |-> TRUE, a |-> pos, b |-> q,
                            group |-> SubSeq(src, pos + 1, q - 1)
                                      \o (IF src[q] = OPEN THEN <<HASH>> ELSE <<>>)]

\* the literal text before the match left out
SpliceDropsLiteral(newsrc, src, i, a, expansion) == newsrc \o expansion

\* newsrc += src[i:a]; if expansion: newsrc += expansion
Splice(newsrc, src, i, a, expansion) == newsrc \o SubSeq(src, i, a - 1) \o expansion

\* the except clauses of process_cell: the expansion to use, or the exception to raise
Handle(ignore, r) ==
    IF r.kind = "raise" /\ r.exc = "UnrecognizedMacroException" /\ ignore
    THEN RetNone(r.meta)
    ELSE r

\* the loop over the matches; pos is where finditer stands, i the end of the last match
RECURSIVE ProcessLoop(_, _, _, _, _, _, _)
ProcessLoop(self, ignore, src, pos, i, newsrc, meta) ==
    LET match == NextMatch(src, pos)
    IN  IF ~match.found
        THEN [exc |-> "", msg |-> <<>>, source |-> newsrc \o SubSeq(src, i, Len(src)), meta |-> meta]
        ELSE LET r == Handle(ignore, expand_macro(self, match.group, meta))
             IN  IF r.kind = "raise"
                 THEN [exc |-> r.exc, msg |-> r.msg, source |-> src, meta |-> r.meta]
                 ELSE ProcessLoop(self, ignore, src, match.b + 1, match.b + 1,
                                  Splice(newsrc, src, i, match.a, r.text), r.meta)

\* process_cell(cell): the cell after the call (it is changed in place), and the
\* exception that ended the call, "" when it returned
process_cell(self, ignore, cell) ==
    LET r == ProcessLoop(self, ignore, cell.source, 1, 1, <<>>, cell.metadata)
    IN  [exc |-> r.exc, msg |-> r.msg,
         cell |-> [cell EXCEPT !.source = r.source, !.metadata = r.meta]]

---------------------------------------------------------------------------
(* Generated cells *)

\* dict.update
Update(d, kw) == [f \in DOMAIN d \cup DOMAIN kw |-> IF f \in DOMAIN kw THEN kw[f] ELSE d[f]]

make_cell(cell_type, kwargs) ==
    LET defaults == IF cell_type = "code"
                    THEN [execution_count |-> "None", outputs |-> <<>>]
                    ELSE [cell_type |-> cell_type, metadata |-> {}, source |-> <<>>]
    IN  Update(defaults, kwargs)

PipCommand == "!pip install -U -t /kaggle/working/ "

pip_install_cell(pkg_spec) == make_cell("code", [source |-> <<PipCommand \o pkg_spec>>])

syspath_lines == <<"import sys\n", "sys.path.append('/kaggle/working')">>

\* the value of nb.cells after pip_install_hack(nb, pkgs)
pip_install_hack(cells, pkgs) ==
    IF pkgs = <<>> THEN cells
    ELSE [k \in 1..Len(pkgs) |-> pip_install_cell(pkgs[k])]
         \o <<make_cell("code", [source |-> syspath_lines])>> \o cells

\* what get_git_branch can do: return the branch, raise CalledProcessError (git
\* exits with an error), raise OSError (git cannot be started)
GitOutcomes ==
    {[kind |-> "ok", branch |-> "master"], [kind |-> "ok", branch |-> "dev"],
     [kind |-> "CalledProcessError", branch |-> ""], [kind |-> "OSError", branch |-> ""]}

LearntoolsRepo == "git+https://github.com/Kaggle/learntools.git@"

\* no except clause: every failure of the lookup gets out
BranchForNoCatch(git) == IF git.kind = "ok" THEN git.branch ELSE ""

\* the branch pip_install_lt_hack installs from, "" when the exception is not caught
BranchFor(git) ==
    IF git.kind = "ok" THEN git.branch
    ELSE IF git.kind = "CalledProcessError" THEN "master"
    ELSE ""

\* pip_install_lt_hack(nb): nb.cells after the call, and the exception that ended it
pip_install_lt_hack(cells, git) ==
    IF BranchFor(git) = "" THEN [exc |-> git.kind, cells |-> cells]
    ELSE [exc |-> "", cells |-> pip_install_hack(cells, <<LearntoolsRepo \o BranchFor(git)>>)]

CourseInfo(self) ==
    "**[" \o self.track.course_name \o " Course Home Page](" \o self.track.course_url \o ")**"

\* add_header_and_footer(cells): line 67 reads "course info" and does not
\* parse; read as course_info, line 69 calls the global make_cell, which is
\* not defined (make_cell is a static method of the class), and line 71 names
\* footer_cells, not defined either.  Every reading ends in an exception
\* before anything is returned, and preprocess drops the return value.
add_header_and_footer(self, cells) == [exc |-> "NameError", cells |-> cells]

---------------------------------------------------------------------------
(* Inputs *)

\* #$ group $
Ref(group) == <<OPEN>> \o group \o <<DOLLAR>>

Fragments ==
    {<<"a">>, <<WS>>, <<DOLLAR>>, <<OPEN>>, <<RPAREN>>,
     Ref(<<"HIDE">>), Ref(<<"EXERCISE_SETUP">>), Ref(<<"KEEP_GOING">>),
     Ref(<<"EXERCISE_URL", LPAREN, "1", RPAREN>>),
     Ref(<<"TUT_BETA_NOTE", LPAREN, WS, "a", RPAREN>>),
     Ref(<<"FOO">>), Ref(<<"FOO", LPAREN, "a", RPAREN>>), Ref(<<"make_cell">>)}

RECURSIVE Texts(_)
Texts(n) ==
    IF n = 0 THEN {<<>>}
    ELSE Texts(n - 1) \cup {t \o f : t \in Texts(n - 1), f \in Fragments}

\* track_cfg: daily is read with get('daily'), development with get('development', False)
Configs == [daily : {"absent", "false", "true"}, development : {"absent", "true"}]

InputCell(src) == [cell_type |-> "markdown", source |-> src, metadata |-> {}]

\* cell texts of the documents the pipeline is run on
CellTexts ==
    {<<"a">>, <<SENTINEL>>, <<WS, SENTINEL, WS>>, <<"a", SENTINEL>>,
     Ref(<<"HIDE">>) \o <<"a">> \o Ref(<<"FOO">>), Ref(<<"KEEP_GOING">>)}

RECURSIVE Documents(_)
Documents(n) ==
    IF n = 0 THEN {<<>>}
    ELSE Documents(n - 1) \cup {Append(d, InputCell(t)) : d \in Documents(n - 1), t \in CellTexts}

Self == [track |-> track, lesson |-> lesson, cfg |-> cfg]

NoCall == [name |-> "", args |-> <<>>, result |-> RetNone({})]

\* the track of the documents the pipeline is run on: the last lesson has no tutorial
PipelineTrack == MkTrack(MaxLessons, 1..(MaxLessons - 1))

---------------------------------------------------------------------------
(* preprocess: one pass over a document *)

\* the comparison without strip()
IsSentinelNoStrip(src) == src = <<SENTINEL>>

\* src.strip() == '#%%RM_BELOW%%'
IsSentinel(src) == Strip(src) = <<SENTINEL>>

\* MacroProcessor.process_cell (nb_utils.macro_processing): it returns the cell,
\* returns it with its text changed, or drops it (returns None)
ResolverOutcomes == {"keep", "mutate", "drop"}

macroer_process_cell(c, outcome) ==
    IF outcome = "mutate" THEN [c EXCEPT !.source = c.source \o <<"<catalog>">>] ELSE c

Init ==
    /\ track = PipelineTrack
    /\ lesson \in 1..Len(track.lessons)
    /\ cfg \in Configs
    /\ nb_type \in {"exercise", "tutorial"}
    /\ IGNORE_UNKNOWN_MACROS \in BOOLEAN
    /\ input_cells \in Documents(MaxCells)
    /\ nb_cells = input_cells
    /\ new_cells = <<>>
    /\ kept = <<>>
    /\ dropped = {}
    /\ idx = 1
    /\ pc = "scan"
    /\ error = ""
    /\ message = <<>>
    /\ git_calls = 0
    /\ git_result = ""
    /\ call = NoCall

\* the loop assigning what it has accumulated to nb.cells when process_cell raises
ScanCellCommitsPartial ==
    /\ pc = "scan"
    /\ idx <= Len(nb_cells)
    /\ ~IsSentinel(nb_cells[idx].source)
    /\ LET r == process_cell(Self, IGNORE_UNKNOWN_MACROS, nb_cells[idx])
       IN  IF r.exc # ""
           THEN /\ nb_cells' = new_cells
                /\ pc' = "failed"
                /\ error' = r.exc
                /\ message' = r.msg
                /\ UNCHANGED <<new_cells, kept, dropped, idx>>
           ELSE \E outcome \in ResolverOutcomes :
                    LET c == macroer_process_cell(r.cell, outcome)
                    IN  /\ nb_cells' = [nb_cells EXCEPT ![idx] = c]
                        /\ new_cells' = IF outcome = "drop" THEN new_cells ELSE Append(new_cells, c)
                        /\ kept' = IF outcome = "drop" THEN kept ELSE Append(kept, idx)
                        /\ dropped' = IF outcome = "drop" THEN dropped \cup {idx} ELSE dropped
                        /\ idx' = idx + 1
                        /\ UNCHANGED <<pc, error, message>>
    /\ UNCHANGED <<track, lesson, cfg, nb_type, IGNORE_UNKNOWN_MACROS, input_cells,
                   git_calls, git_result, call>>

\* one turn of the for loop (lines 42-50) on a cell that is not the sentinel
ScanCell ==
    /\ pc = "scan"
    /\ idx <= Len(nb_cells)
    /\ ~IsSentinel(nb_cells[idx].source)
    /\ LET r == process_cell(Self, IGNORE_UNKNOWN_MACROS, nb_cells[idx])
       IN  IF r.exc # ""
           THEN /\ nb_cells' = [nb_cells EXCEPT ![idx] = r.cell]
                /\ pc' = "failed"
                /\ error' = r.exc
                /\ message' = r.msg
                /\ UNCHANGED <<new_cells, kept, dropped, idx>>
           ELSE \E outcome \in ResolverOutcomes :
                    LET c == macroer_process_cell(r.cell, outcome)
                    IN  /\ nb_cells' = [nb_cells EXCEPT ![idx] = c]
                        /\ new_cells' = IF outcome = "drop" THEN new_cells ELSE Append(new_cells, c)
                        /\ kept' = IF outcome = "drop" THEN kept ELSE Append(kept, idx)
                        /\ dropped' = IF outcome = "drop" THEN dropped \cup {idx} ELSE dropped
                        /\ idx' = idx + 1
                        /\ UNCHANGED <<pc, error, message>>
    /\ UNCHANGED <<track, lesson, cfg, nb_type, IGNORE_UNKNOWN_MACROS, input_cells,
                   git_calls, git_result, call>>

\* the loop ends: the cells are exhausted, or the break of line 46
ScanEnd ==
    /\ pc = "scan"
    /\ IF idx <= Len(nb_cells) THEN IsSentinel(nb_cells[idx].source) ELSE TRUE
    /\ pc' = "frame"
    /\ UNCHANGED <<track, lesson, cfg, nb_type, IGNORE_UNKNOWN_MACROS, input_cells, nb_cells,
                   new_cells, kept, dropped, idx, error, message, git_calls, git_result, call>>

\* lines 53-54
Frame ==
    /\ pc = "frame"
    /\ IF ~Truthy(cfg.daily)
       THEN LET r == add_header_and_footer(Self, new_cells)
            IN  IF r.exc # ""
                THEN pc' = "failed" /\ error' = r.exc
                ELSE pc' = "commit" /\ error' = error
       ELSE pc' = "commit" /\ error' = error
    /\ UNCHANGED <<track, lesson, cfg, nb_type, IGNORE_UNKNOWN_MACROS, input_cells, nb_cells,
                   new_cells, kept, dropped, idx, message, git_calls, git_result, call>>

\* lines 56-59
Commit ==
    /\ pc = "commit"
    /\ nb_cells' = new_cells
    /\ pc' = IF Truthy(cfg.development) /\ nb_type = "exercise" THEN "bootstrap" ELSE "done"
    /\ UNCHANGED <<track, lesson, cfg, nb_type, IGNORE_UNKNOWN_MACROS, input_cells,
                   new_cells, kept, dropped, idx, error, message, git_calls, git_result, call>>

\* line 60: pip_install_lt_hack(nb)
Bootstrap ==
    /\ pc = "bootstrap"
    /\ \E git \in GitOutcomes :
           LET r == pip_install_lt_hack(nb_cells, git)
           IN  /\ git_calls' = git_calls + 1
               /\ git_result' = git.kind
               /\ nb_cells' = r.cells
               /\ pc' = IF r.exc # "" THEN "failed" ELSE "done"
               /\ error' = r.exc
    /\ UNCHANGED <<track, lesson, cfg, nb_type, IGNORE_UNKNOWN_MACROS, input_cells,
                   new_cells, kept, dropped, idx, message, call>>

Next == ScanCell \/ ScanEnd \/ Frame \/ Commit \/ Bootstrap

Spec == Init /\ [][Next]_vars

---------------------------------------------------------------------------
(* process_cell on one cell *)

InitCell ==
    /\ track = PipelineTrack
    /\ lesson \in 1..Len(track.lessons)
    /\ cfg \in [daily : {"false", "true"}, development : {"absent"}]
    /\ nb_type = "exercise"
    /\ IGNORE_UNKNOWN_MACROS \in BOOLEAN
    /\ input_cells \in {<<InputCell(t)>> : t \in Texts(MaxParts)}
    /\ nb_cells = input_cells
    /\ new_cells = <<>>
    /\ kept = <<>>
    /\ dropped = {}
    /\ idx = 1
    /\ pc = "cell"
    /\ error = ""
    /\ message = <<>>
    /\ git_calls = 0
    /\ git_result = ""
    /\ call = NoCall

RunProcessCell ==
    /\ pc = "cell"
    /\ LET r == process_cell(Self, IGNORE_UNKNOWN_MACROS, nb_cells[1])
       IN  /\ nb_cells' = <<r.cell>>
           /\ pc' = IF r.exc # "" THEN "failed" ELSE "done"
           /\ error' = r.exc
           /\ message' = r.msg
    /\ UNCHANGED <<track, lesson, cfg, nb_type, IGNORE_UNKNOWN_MACROS, input_cells,
                   new_cells, kept, dropped, idx, git_calls, git_result, call>>

NextCell == RunProcessCell

SpecCell == InitCell /\ [][NextCell]_vars

---------------------------------------------------------------------------
(* The macro methods called one at a time *)

ArgChoices == {<<>>} \cup {<<<<n>>>> : n \in Numerals} \cup {<<<<"a">>>>}

InitMacro ==
    /\ track \in Tracks
    /\ lesson \in 1..Len(track.lessons)
    /\ cfg \in [daily : {"absent", "false", "true"}, development : {"absent"}]
    /\ nb_type = "exercise"
    /\ IGNORE_UNKNOWN_MACROS = FALSE
    /\ input_cells = <<>>
    /\ nb_cells = <<>>
    /\ new_cells = <<>>
    /\ kept = <<>>
    /\ dropped = {}
    /\ idx = 1
    /\ pc = "macro"
    /\ error = ""
    /\ message = <<>>
    /\ git_calls = 0
    /\ git_result = ""
    /\ call = NoCall

CallMacro ==
    /\ pc = "macro"
    /\ \E name \in MacroNames, args \in ArgChoices :
           call' = [name |-> name, args |-> args, result |-> CallMethod(Self, name, args, {})]
    /\ UNCHANGED <<track, lesson, cfg, nb_type, IGNORE_UNKNOWN_MACROS, input_cells, nb_cells,
                   new_cells, kept, dropped, idx, pc, error, message, git_calls, git_result>>

NextMacro == CallMacro

SpecMacro == InitMacro /\ [][NextMacro]_vars

---------------------------------------------------------------------------
(* Properties of the pass (specification Spec) *)

\* exceptions that process_cell lets out of the scan
ScanErrors == {"UnrecognizedMacroException", "TypeError", "ValueError", "IndexError",
               "AttributeError"}

\* the text is the sentinel token with nothing but whitespace around it
TrimmedIsSentinel(src) ==
    \E i \in 1..Len(src) : src[i] = SENTINEL /\ \A j \in 1..Len(src) : j # i => src[j] = WS

\* the position of the first sentinel cell of the input, one past the end when there is none
FirstSentinel ==
    LET S == {i \in 1..Len(input_cells) : TrimmedIsSentinel(input_cells[i].source)}
    IN  IF S = {} THEN Len(input_cells) + 1 ELSE CHOOSE i \in S : \A j \in S : i <= j

\* the scan is over and new_cells is the list before framing
ScanOver == pc \in {"frame", "commit"}

\* C1: when the scan is over, the loop stopped at the first cell whose trimmed
\* text is the sentinel (at the end when there is none); every cell before it was
\* either kept or dropped by the resolver, the kept ones are in new_cells in
\* their original order, and no cell at or after the sentinel is among them.
\* With nothing dropped, [A, B, sentinel, C, D] gives exactly [A, B].
C1_Truncation ==
    ScanOver =>
        /\ idx = FirstSentinel
        /\ Len(new_cells) = Len(kept)
        /\ \A j \in 1..Len(kept) : kept[j] < FirstSentinel /\ new_cells[j] = nb_cells[kept[j]]
        /\ \A j \in 1..(Len(kept) - 1) : kept[j] < kept[j + 1]
        /\ {kept[j] : j \in 1..Len(kept)} \cup dropped = 1..(FirstSentinel - 1)
        /\ dropped = {} => kept = [j \in 1..(FirstSentinel - 1) |-> j]

\* a sentinel with whitespace around it, cells on both sides of it, only the ones before kept
C1_Witness ==
    /\ ScanOver
    /\ FirstSentinel = 2
    /\ Len(input_cells) = 3
    /\ input_cells[2].source = <<WS, SENTINEL, WS>>
    /\ kept = <<1>>

\* the output without the bootstrap cells
WithoutBootstrap ==
    IF git_calls > 0 /\ pc = "done" THEN SubSeq(nb_cells, 3, Len(nb_cells)) ELSE nb_cells

IsMarkdownWith(c, text) ==
    /\ {"cell_type", "metadata", "source"} \subseteq DOMAIN c
    /\ c.cell_type = "markdown"
    /\ c.source = text

\* the pass got through the scan and the branch lookup did not end it
PassOverAfterScan == pc \in {"done", "failed"} /\ error \notin ScanErrors \cup {"OSError"}

\* C2: a pass that got through the scan ends with, when cfg.daily is absent or
\* false, survivors + 2 cells, the first a Markdown header ending in the course
\* link and the rule, the last a Markdown footer starting with the rule and the
\* course link; when cfg.daily is true, with exactly the survivors.
C2_HeaderFooter ==
    PassOverAfterScan =>
        /\ pc = "done"
        /\ IF Truthy(cfg.daily)
           THEN WithoutBootstrap = new_cells
           ELSE /\ Len(WithoutBootstrap) = Len(new_cells) + 2
                /\ IsMarkdownWith(WithoutBootstrap[1], CourseInfo(Self) \o "\n---")
                /\ IsMarkdownWith(WithoutBootstrap[Len(WithoutBootstrap)], "---\n" \o CourseInfo(Self))
                /\ SubSeq(WithoutBootstrap, 2, Len(WithoutBootstrap) - 1) = new_cells

\* C4 as claimed: a pass that a macro ended leaves the document as it was
C4_NothingChanged ==
    (pc = "failed" /\ error \in ScanErrors) => nb_cells = input_cells

\* C4: a pass that a macro ended does not replace the cell sequence: no cell is
\* dropped, added or moved, the failing cell keeps its text and the cells after
\* it are untouched; the cells before it hold their expanded text and flags
\* (process_cell changes them in place), and the failing cell the flags set by
\* the macros before the failing one.
C4_SequenceNotReplaced ==
    (pc = "failed" /\ error \in ScanErrors) =>
        /\ Len(nb_cells) = Len(input_cells)
        /\ new_cells = [j \in 1..Len(kept) |-> nb_cells[kept[j]]]
        /\ nb_cells[idx].source = input_cells[idx].source
        /\ input_cells[idx].metadata \subseteq nb_cells[idx].metadata
        /\ \A i \in (idx + 1)..Len(nb_cells) : nb_cells[i] = input_cells[i]
        /\ \A i \in 1..Len(nb_cells) : nb_cells[i].cell_type = input_cells[i].cell_type

\* the second cell fails after the first was expanded and after HIDE set its own flags
C4_Witness ==
    /\ pc = "failed"
    /\ error = "UnrecognizedMacroException"
    /\ idx = 2
    /\ nb_cells[1].source # input_cells[1].source
    /\ nb_cells[2].metadata # input_cells[2].metadata

\* the cells pip_install_hack puts in front for one package
IsBootstrapPrefix(cells, others) ==
    /\ Len(cells) = Len(others) + 2
    /\ \E b \in {"master", "dev"} : cells[1].source = <<PipCommand \o LearntoolsRepo \o b>>
    /\ cells[2].source = syspath_lines
    /\ SubSeq(cells, 3, Len(cells)) = others

\* C5: a pass that got through the scan ends, when cfg.development is true and
\* the type is exercise, with the install cell and then the path cell in front
\* of all other cells, and otherwise with no cell added in front.
C5_BootstrapInjected ==
    PassOverAfterScan =>
        /\ pc = "done"
        /\ IF Truthy(cfg.development) /\ nb_type = "exercise"
           THEN IsBootstrapPrefix(nb_cells, WithoutBootstrap)
           ELSE git_calls = 0 /\ nb_cells = WithoutBootstrap /\ Len(nb_cells) <= Len(new_cells) + 2

\* C9 as claimed: the lookup runs at most once and only for bootstrap injection,
\* and any failure of it is caught: master is installed and the pass completes
C9_AnyFailureCaught ==
    /\ git_calls <= 1
    /\ git_calls > 0 => Truthy(cfg.development) /\ nb_type = "exercise"
    /\ git_result \in {"CalledProcessError", "OSError"} =>
           /\ pc = "done"
           /\ Len(nb_cells) = Len(new_cells) + 2
           /\ nb_cells[1].source = <<PipCommand \o LearntoolsRepo \o "master">>

\* C9: the lookup runs at most once per pass and only when bootstrap injection
\* is enabled; when it fails with CalledProcessError the failure is caught,
\* master is used in the install specifier and the pass completes with the
\* bootstrap cells in front; a failure to start git (OSError) ends the pass.
C9_CalledProcessErrorCaught ==
    /\ git_calls <= 1
    /\ git_calls > 0 => Truthy(cfg.development) /\ nb_type = "exercise"
    /\ git_result = "CalledProcessError" =>
           /\ pc = "done"
           /\ error = ""
           /\ Len(nb_cells) = Len(new_cells) + 2
           /\ nb_cells[1].source = <<PipCommand \o LearntoolsRepo \o "master">>
           /\ nb_cells[2].source = syspath_lines
           /\ SubSeq(nb_cells, 3, Len(nb_cells)) = new_cells
    /\ git_result = "OSError" => pc = "failed" /\ error = "OSError"

C9_Witness ==
    /\ git_result = "CalledProcessError"
    /\ pc = "done"
    /\ Len(new_cells) > 0

IsCodeCell(c) ==
    /\ {"cell_type", "metadata", "source", "execution_count", "outputs"} \subseteq DOMAIN c
    /\ c.cell_type = "code"
    /\ c.execution_count = "None"
    /\ c.outputs = <<>>

\* C10: the bootstrap cells of a completed pass are Code cells: each carries the
\* type code, a metadata mapping, its source, an empty execution count and an
\* empty list of outputs.
C10_BootstrapCellsWellFormed ==
    (pc = "done" /\ git_calls > 0) => IsCodeCell(nb_cells[1]) /\ IsCodeCell(nb_cells[2])

---------------------------------------------------------------------------
(* Properties of process_cell (specification SpecCell) *)

\* all matches of the pattern in src, left to right
RECURSIVE AllMatches(_, _)
AllMatches(src, pos) ==
    LET m == NextMatch(src, pos)
    IN  IF m.found THEN <<m>> \o AllMatches(src, m.b + 1) ELSE <<>>

\* the text a reference expands to
ExpansionOf(group) == Handle(IGNORE_UNKNOWN_MACROS, expand_macro(Self, group, {})).text

\* the literal text before match k, back to the end of the match before it
LiteralBefore(src, ms, k) == SubSeq(src, IF k = 1 THEN 1 ELSE ms[k - 1].b + 1, ms[k].a - 1)

\* the literal text after the last match
LiteralTail(src, ms) == SubSeq(src, IF ms = <<>> THEN 1 ELSE ms[Len(ms)].b + 1, Len(src))

RECURSIVE Rebuilt(_, _, _)
Rebuilt(src, ms, k) ==
    IF k = 0 THEN <<>>
    ELSE Rebuilt(src, ms, k - 1) \o LiteralBefore(src, ms, k) \o ExpansionOf(ms[k].group)

\* C8: when process_cell returns, the cell's text is, for each match in order, the
\* literal text before it followed by its expansion (empty when the macro returns
\* nothing), and then the literal tail; a cell without a reference keeps its text.
C8_Reconstruction ==
    (pc = "done" /\ Len(input_cells) = 1) =>
        LET src == input_cells[1].source
            ms == AllMatches(src, 1)
        IN  /\ nb_cells[1].source = Rebuilt(src, ms, Len(ms)) \o LiteralTail(src, ms)
            /\ ms = <<>> => nb_cells[1].source = src

\* two references, one expanding to text and one to nothing, with literal text
\* before, between or after them
C8_Witness ==
    /\ pc = "done"
    /\ Len(input_cells) = 1
    /\ LET src == input_cells[1].source
           ms == AllMatches(src, 1)
       IN  /\ Len(ms) = 2
           /\ ExpansionOf(ms[1].group) = <<>>
           /\ ExpansionOf(ms[2].group) # <<>>
           /\ LiteralBefore(src, ms, 1) \o LiteralBefore(src, ms, 2) \o LiteralTail(src, ms) # <<>>

\* NAME or NAME(arg): no closing parenthesis at the end, or one opening parenthesis before it
WellFormedReference(group) ==
    \/ group[Len(group)] # RPAREN
    \/ Cardinality({i \in 1..(Len(group) - 1) : group[i] = LPAREN}) = 1

\* the name of a well-formed reference
NameOf(group) ==
    IF group[Len(group)] # RPAREN THEN group
    ELSE SubSeq(group, 1, (CHOOSE i \in 1..Len(group) : group[i] = LPAREN) - 1)

IsBuiltIn(name) == Len(name) = 1 /\ name[1] \in MacroNames

\* C3: for a cell with one reference, well formed and with a name that is none
\* of the twelve built-in operations, strict mode raises Unrecognized Macro
\* naming that name, and permissive mode returns the cell with the reference
\* removed and no other text altered.
C3_UnknownMacroPolicy ==
    (pc \in {"done", "failed"} /\ Len(input_cells) = 1) =>
        LET src == input_cells[1].source
            ms == AllMatches(src, 1)
        IN  (Len(ms) = 1 /\ WellFormedReference(ms[1].group) /\ ~IsBuiltIn(NameOf(ms[1].group))) =>
                IF IGNORE_UNKNOWN_MACROS
                THEN /\ pc = "done"
                     /\ nb_cells[1].source = SubSeq(src, 1, ms[1].a - 1) \o SubSeq(src, ms[1].b + 1, Len(src))
                ELSE /\ pc = "failed"
                     /\ error = "UnrecognizedMacroException"
                     /\ message = <<UnrecognizedMessage>> \o NameOf(ms[1].group)

---------------------------------------------------------------------------
(* Properties of the macro methods (specification SpecMacro) *)

\* C6: EXERCISE_URL(n) returns the fork URL of lesson n (counted from 1) for
\* 1 <= n <= number of lessons, and ends in an exception for n = 0 and negative n.
C6_ExerciseUrl ==
    (call.name = "EXERCISE_URL" /\ Len(call.args) = 1 /\ IsInt(call.args[1])) =>
        LET n == IntValue(call.args[1][1])
        IN  /\ (1 <= n /\ n <= Len(track.lessons)) =>
                   call.result.kind = "text" /\ call.result.text = <<track.lessons[n].forking_url>>
            /\ n <= 0 => call.result.kind = "raise"

IsIn(tok, text) == \E i \in 1..Len(text) : text[i] = tok

\* C7: KEEP_GOING returns the "another email tomorrow" text when cfg.daily is
\* true, wherever the lesson stands in the track; when cfg.daily is not true and
\* the lesson is not the last, it returns text holding the next lesson's topic
\* and its tutorial URL if it has a tutorial, else its exercise fork URL.
C7_KeepGoing ==
    (call.name = "KEEP_GOING" /\ call.args = <<>>) =>
        /\ cfg.daily = "true" =>
               call.result.kind = "text" /\ call.result.text = <<DailyMessage>>
        /\ (cfg.daily # "true" /\ lesson < Len(track.lessons)) =>
               LET nxt == track.lessons[lesson + 1]
               IN  /\ call.result.kind = "text"
                   /\ IsIn(nxt.topic, call.result.text)
                   /\ IF nxt.has_tutorial
                      THEN IsIn(nxt.tutorial_url, call.result.text)
                           /\ ~IsIn(nxt.forking_url, call.result.text)
                      ELSE IsIn(nxt.forking_url, call.result.text)
                           /\ ~IsIn(nxt.tutorial_url, call.result.text)

\* KEEP_GOING on a lesson that is not the last, the next lesson having no tutorial
C7_Witness ==
    /\ call.name = "KEEP_GOING"
    /\ call.args = <<>>
    /\ cfg.daily = "false"
    /\ lesson < Len(track.lessons)
    /\ ~track.lessons[lesson + 1].has_tutorial
    /\ call.result.kind = "text"

===========================================================================
